---- MODULE Spec2Model ----
(***************************************************************************)
(* Model of the UMA protocol core of uma-go-sdk: version negotiation       *)
(* (uma/version.go) and the request/response message model with its        *)
(* codecs and signable payloads (uma/protocol.go).                         *)
(*                                                                         *)
(* Every operation of the package is a synchronous function over values,   *)
(* so the state machine records the last call: `call` names the function,  *)
(* `args` holds its inputs and `ret` its outputs; the caller then takes    *)
(* the result and is idle again.  Go strings are modelled                  *)
(* as sequences of one-character strings, a nil pointer as the empty       *)
(* sequence and a pointer to x as <<x>>.                                   *)
(***************************************************************************)
EXTENDS Integers, Sequences, FiniteSets, TLC

VARIABLES call, args, ret

vars == <<call, args, ret>>

\* ------------------------------------------------------------------
\* Bounds of the model
\* ------------------------------------------------------------------

\* Longest list of counterparty major versions.
MaxMajors == 3
\* Longest version string handed to ParseVersion.
MaxVerLen == 4
\* Longest version string of a pair handed to SelectLowerVersion.
MaxPairLen == 4
\* Largest major / minor number formatted by ParsedVersion.String.
MaxVersionNumber == 12
\* Longest hybrid amount string inside a decoded pay request.
MaxAmountLen == 3
\* Longest generated receiver address, identifier or nonce.
MaxFieldLen == 2

\* ------------------------------------------------------------------
\* Pointers and strings
\* ------------------------------------------------------------------

Nil == <<>>
Ptr(x) == <<x>>
IsNil(p) == Len(p) = 0
Deref(p) == p[1]

\* All sequences over alphabet S of length at most n.
SeqsUpTo(S, n) == UNION {[1..k -> S] : k \in 0..n}

Digits == <<"0", "1", "2", "3", "4", "5", "6", "7", "8", "9">>
DigitSet == {Digits[i] : i \in 1..Len(Digits)}
IsDigit(c) == c \in DigitSet
DigitValue(c) == (CHOOSE i \in 1..Len(Digits) : Digits[i] = c) - 1

\* strings.Join(elems, sep)
RECURSIVE StringsJoin(_, _)
StringsJoin(elems, sep) ==
    IF Len(elems) = 0 THEN <<>>
    ELSE IF Len(elems) = 1 THEN elems[1]
    ELSE elems[1] \o sep \o StringsJoin(Tail(elems), sep)

\* strings.Split(s, sep) for a one-character separator: always at least
\* one part; n separators give n + 1 parts.
RECURSIVE StringsSplit(_, _)
StringsSplit(s, sep) ==
    IF \A i \in 1..Len(s) : s[i] # sep THEN <<s>>
    ELSE LET k == CHOOSE i \in 1..Len(s) :
                      s[i] = sep /\ \A j \in 1..(i - 1) : s[j] # sep
         IN <<SubSeq(s, 1, k - 1)>> \o StringsSplit(SubSeq(s, k + 1, Len(s)), sep)

\* Decimal digits of a natural number, most significant first.
RECURSIVE NatDigits(_)
NatDigits(n) ==
    IF n < 10 THEN <<Digits[n + 1]>>
    ELSE NatDigits(n \div 10) \o <<Digits[(n % 10) + 1]>>

\* strconv.FormatInt(n, 10); also what fmt's %d verb prints.
FormatInt(n) == IF n < 0 THEN <<"-">> \o NatDigits(-n) ELSE NatDigits(n)

\* Value of a non-empty string of decimal digits.
RECURSIVE DigitsValue(_)
DigitsValue(s) ==
    IF Len(s) = 0 THEN 0
    ELSE 10 * DigitsValue(SubSeq(s, 1, Len(s) - 1)) + DigitValue(s[Len(s)])

\* strconv.ParseInt(s, 10, 64): an optional sign, then one or more decimal
\* digits and nothing else.  A syntax error returns the value 0.  (The
\* range error of a value outside int64 needs a string of 19 digits or
\* more and is beyond the strings of this model.)
ParseInt(s) ==
    LET signed == Len(s) > 0 /\ s[1] \in {"+", "-"}
        body == IF signed THEN Tail(s) ELSE s
    IN IF Len(body) = 0 \/ \E i \in 1..Len(body) : ~IsDigit(body[i])
       THEN [err |-> TRUE, val |-> 0]
       ELSE [err |-> FALSE,
             val |-> IF signed /\ s[1] = "-" THEN -DigitsValue(body)
                     ELSE DigitsValue(body)]

\* ------------------------------------------------------------------
\* uma/version.go
\* ------------------------------------------------------------------

MAJOR_VERSION == 1
MINOR_VERSION == 0

backcompatVersions == << <<"0", ".", "3">> >>

\* The %d verb of fmt.Sscanf at position pos of s: skips blanks, takes an
\* optional sign and then one or more decimal digits.  Fails at the end of
\* the input or when no digit follows.
ScanInt(s, pos) ==
    LET blanks == {i \in pos..Len(s) : \A j \in pos..i : s[j] = " "}
        start == pos + Cardinality(blanks)
        signed == start <= Len(s) /\ s[start] \in {"+", "-"}
        first == IF signed THEN start + 1 ELSE start
        run == {i \in first..Len(s) : \A j \in first..i : IsDigit(s[j])}
        stop == first + Cardinality(run)
    IN IF start > Len(s) \/ Cardinality(run) = 0
       THEN [err |-> TRUE, val |-> 0, next |-> pos]
       ELSE [err |-> FALSE,
             val |-> ParseInt(SubSeq(s, start, stop - 1)).val,
             next |-> stop]
\* ParsedVersion.String with its two operands exchanged.
VersionString_Swapped(v) == FormatInt(v.Minor) \o <<".">> \o FormatInt(v.Major)

\* ParsedVersion.String: fmt.Sprintf("%d.%d", v.Major, v.Minor)
VersionString(v) == FormatInt(v.Major) \o <<".">> \o FormatInt(v.Minor)

\* ParseVersion: fmt.Sscanf(version, "%d.%d", &major, &minor).  The scan
\* stops when the format is used up; input left over is not looked at.
ParseVersion(version) ==
    LET noVersion == [err |-> TRUE, v |-> Nil]
        major == ScanInt(version, 1)
    IN IF major.err THEN noVersion
       ELSE IF major.next > Len(version) \/ version[major.next] # "."
       THEN noVersion
       ELSE LET minor == ScanInt(version, major.next + 1)
            IN IF minor.err THEN noVersion
               ELSE [err |-> FALSE,
                     v |-> Ptr([Major |-> major.val, Minor |-> minor.val])]

UmaProtocolVersion == FormatInt(MAJOR_VERSION) \o <<".">> \o FormatInt(MINOR_VERSION)

\* GetSupportedMajorVersions: the current major plus the major of every
\* backward-compatible version that parses.
GetSupportedMajorVersions ==
    {MAJOR_VERSION} \cup
    {Deref(ParseVersion(backcompatVersions[i]).v).Major :
        i \in {j \in 1..Len(backcompatVersions) :
                   ~ParseVersion(backcompatVersions[j]).err}}

\* GetHighestSupportedVersionForMajorVersion: the current version for the
\* current major, else the first backward-compatible version of that major.
GetHighestSupportedVersionForMajorVersion(majorVersion) ==
    IF majorVersion = MAJOR_VERSION THEN ParseVersion(UmaProtocolVersion).v
    ELSE LET hits == {i \in 1..Len(backcompatVersions) :
                         /\ ~ParseVersion(backcompatVersions[i]).err
                         /\ Deref(ParseVersion(backcompatVersions[i]).v).Major
                                = majorVersion}
         IN IF hits = {} THEN Nil
            ELSE ParseVersion(
                     backcompatVersions[CHOOSE i \in hits : \A j \in hits : i <= j]).v
\* SelectHighestStep with the comparison of line 92 turned around.
SelectHighestStep_Lowest(highestVersion, otherVaspMajorVersion) ==
    IF otherVaspMajorVersion \notin GetSupportedMajorVersions THEN highestVersion
    ELSE IF IsNil(highestVersion)
    THEN GetHighestSupportedVersionForMajorVersion(otherVaspMajorVersion)
    ELSE IF otherVaspMajorVersion < Deref(highestVersion).Major
    THEN GetHighestSupportedVersionForMajorVersion(otherVaspMajorVersion)
    ELSE highestVersion

\* One iteration of the loop of SelectHighestSupportedVersion.
SelectHighestStep(highestVersion, otherVaspMajorVersion) ==
    IF otherVaspMajorVersion \notin GetSupportedMajorVersions THEN highestVersion
    ELSE IF IsNil(highestVersion)
    THEN GetHighestSupportedVersionForMajorVersion(otherVaspMajorVersion)
    ELSE IF otherVaspMajorVersion > Deref(highestVersion).Major
    THEN GetHighestSupportedVersionForMajorVersion(otherVaspMajorVersion)
    ELSE highestVersion

RECURSIVE SelectHighestLoop(_, _)
SelectHighestLoop(highestVersion, majors) ==
    IF Len(majors) = 0 THEN highestVersion
    ELSE SelectHighestLoop(SelectHighestStep(highestVersion, majors[1]), Tail(majors))

\* SelectHighestSupportedVersion: nil, or a pointer to the version string.
SelectHighestSupportedVersion(otherVaspSupportedMajorVersions) ==
    LET highestVersion == SelectHighestLoop(Nil, otherVaspSupportedMajorVersions)
    IN IF IsNil(highestVersion) THEN Nil
       ELSE Ptr(VersionString(Deref(highestVersion)))

\* SelectLowerVersion: the first string unless it parses to the greater
\* version; an error and no string when either fails to parse.
SelectLowerVersion(version1String, version2String) ==
    LET p1 == ParseVersion(version1String)
        p2 == ParseVersion(version2String)
    IN IF p1.err THEN [err |-> TRUE, version |-> Nil]
       ELSE IF p2.err THEN [err |-> TRUE, version |-> Nil]
       ELSE LET version1 == Deref(p1.v)
                version2 == Deref(p2.v)
            IN IF \/ version1.Major > version2.Major
                  \/ (version1.Major = version2.Major /\ version1.Minor > version2.Minor)
               THEN [err |-> FALSE, version |-> Ptr(version2String)]
               ELSE [err |-> FALSE, version |-> Ptr(version1String)]

\* IsVersionSupported
IsVersionSupported(version) ==
    LET parsed == ParseVersion(version)
    IN IF parsed.err \/ IsNil(parsed.v) THEN FALSE
       ELSE Deref(parsed.v).Major \in GetSupportedMajorVersions

\* ------------------------------------------------------------------
\* uma/protocol.go: LnurlpRequest
\* ------------------------------------------------------------------

\* time.Time.Unix(): the whole seconds of the instant.
Unix(t) == t.sec

\* strconv.FormatBool
FormatBool(b) == IF b THEN <<"t", "r", "u", "e">> ELSE <<"f", "a", "l", "s", "e">>
\* LnurlpRequest.IsUmaRequest that asks for the travel rule flag as well.
LnurlpRequestIsUmaRequest_WithFlag(q) ==
    /\ ~IsNil(q.VaspDomain)
    /\ ~IsNil(q.Nonce)
    /\ ~IsNil(q.Signature)
    /\ ~IsNil(q.Timestamp)
    /\ ~IsNil(q.UmaVersion)
    /\ ~IsNil(q.IsSubjectToTravelRule)

\* LnurlpRequest.IsUmaRequest
LnurlpRequestIsUmaRequest(q) ==
    /\ ~IsNil(q.VaspDomain)
    /\ ~IsNil(q.Nonce)
    /\ ~IsNil(q.Signature)
    /\ ~IsNil(q.Timestamp)
    /\ ~IsNil(q.UmaVersion)

\* LnurlpRequest.AsUmaRequest: nil, or a pointer to the UmaLnurlpRequest.
LnurlpRequestAsUmaRequest(q) ==
    IF ~LnurlpRequestIsUmaRequest(q) THEN Nil
    ELSE Ptr([LnurlpRequest |-> q,
              ReceiverAddress |-> q.ReceiverAddress,
              Nonce |-> Deref(q.Nonce),
              Signature |-> Deref(q.Signature),
              IsSubjectToTravelRule |->
                  (~IsNil(q.IsSubjectToTravelRule) /\ Deref(q.IsSubjectToTravelRule)),
              VaspDomain |-> Deref(q.VaspDomain),
              Timestamp |-> Deref(q.Timestamp),
              UmaVersion |-> Deref(q.UmaVersion)])

\* Host names served over plain http.
LocalHosts == {<<"l", "o", "c", "a", "l", "h", "o", "s", "t">>,
               <<"1", "2", "7", ".", "0", ".", "0", ".", "1">>}

\* IsDomainLocalhost
IsDomainLocalhost(domain) == domain \in LocalHosts

\* Characters url.QueryEscape leaves as they are.
Letters ==
    {"a", "b", "c", "d", "e", "f", "g", "h", "i", "j", "k", "l", "m", "n", "o",
     "p", "q", "r", "s", "t", "u", "v", "w", "x", "y", "z", "U", "S", "D", "E", "R"}

Unreserved == DigitSet \cup Letters \cup {"-", "_", ".", "~"}

\* url.QueryEscape of one character.
EscapeChar(c) ==
    IF c \in Unreserved THEN <<c>>
    ELSE IF c = " " THEN <<"+">>
    ELSE IF c = "@" THEN <<"%", "4", "0">>
    ELSE IF c = "|" THEN <<"%", "7", "C">>
    ELSE IF c = "+" THEN <<"%", "2", "B">>
    ELSE <<"%", "2", "2">>   \* the double quote, the one other character used

RECURSIVE QueryEscape(_)
QueryEscape(s) ==
    IF Len(s) = 0 THEN <<>> ELSE EscapeChar(s[1]) \o QueryEscape(Tail(s))

\* url.Values.Add: the pairs in the order they were added.
ValuesAdd(values, key, value) == Append(values, [key |-> key, value |-> value])

\* The query keys of a capability request in the order sort.Strings puts them.
SortedQueryKeys ==
    <<"isSubjectToTravelRule", "nonce", "signature", "timestamp", "umaVersion",
      "vaspDomain">>

\* url.Values.Encode: key=value pairs by sorted key, each value escaped.
\* The encoded query is kept as the sequence of its pairs, which "&" separates
\* in the string.
RECURSIVE EncodeKeys(_, _)
EncodeKeys(values, keys) ==
    IF Len(keys) = 0 THEN <<>>
    ELSE LET mine == SelectSeq(values, LAMBDA kv : kv.key = keys[1])
         IN [i \in 1..Len(mine) |->
                 [key |-> mine[i].key, value |-> QueryEscape(mine[i].value)]]
            \o EncodeKeys(values, Tail(keys))

ValuesEncode(values) == EncodeKeys(values, SortedQueryKeys)

WellKnownLnurlp ==
    <<"/", ".", "w", "e", "l", "l", "-", "k", "n", "o", "w", "n",
      "/", "l", "n", "u", "r", "l", "p", "/">>

\* The query parameters EncodeToUrl adds for a UMA request; reads
\* *q.IsSubjectToTravelRule.
UmaQueryParams(q) ==
    LET v1 == ValuesAdd(<<>>, "signature", Deref(q.Signature))
        v2 == ValuesAdd(v1, "vaspDomain", Deref(q.VaspDomain))
        v3 == ValuesAdd(v2, "nonce", Deref(q.Nonce))
        v4 == ValuesAdd(v3, "isSubjectToTravelRule",
                        FormatBool(Deref(q.IsSubjectToTravelRule)))
        v5 == ValuesAdd(v4, "timestamp", FormatInt(Unix(Deref(q.Timestamp))))
    IN ValuesAdd(v5, "umaVersion", Deref(q.UmaVersion))

\* LnurlpRequest.EncodeToUrl.  outcome is "ok", "error" (the returned error)
\* or "panic" (the nil pointer dereference of line 76).
LnurlpRequestEncodeToUrl(q) ==
    LET receiverAddressParts == StringsSplit(q.ReceiverAddress, "@")
    IN IF Len(receiverAddressParts) # 2
       THEN [outcome |-> "error", url |-> Nil]
       ELSE IF LnurlpRequestIsUmaRequest(q) /\ IsNil(q.IsSubjectToTravelRule)
       THEN [outcome |-> "panic", url |-> Nil]
       ELSE [outcome |-> "ok",
             url |-> Ptr([Scheme |-> IF IsDomainLocalhost(receiverAddressParts[2])
                                     THEN <<"h", "t", "t", "p">>
                                     ELSE <<"h", "t", "t", "p", "s">>,
                          Host |-> receiverAddressParts[2],
                          Path |-> WellKnownLnurlp \o receiverAddressParts[1],
                          RawQuery |-> ValuesEncode(
                              IF LnurlpRequestIsUmaRequest(q)
                              THEN UmaQueryParams(q) ELSE <<>>)])]
\* LnurlpRequest.signablePayload joining the nonce before the address.
LnurlpRequestSignablePayload_NonceFirst(q) ==
    IF IsNil(q.Timestamp) \/ IsNil(q.Nonce)
    THEN [err |-> TRUE, payload |-> Nil]
    ELSE [err |-> FALSE,
          payload |-> Ptr(StringsJoin(<<Deref(q.Nonce), q.ReceiverAddress,
                                        FormatInt(Unix(Deref(q.Timestamp)))>>,
                                      <<"|">>))]

\* LnurlpRequest.signablePayload that checks the timestamp only and signs
\* an empty nonce when there is none.
LnurlpRequestSignablePayload_NoNonceCheck(q) ==
    IF IsNil(q.Timestamp)
    THEN [err |-> TRUE, payload |-> Nil]
    ELSE [err |-> FALSE,
          payload |-> Ptr(StringsJoin(<<q.ReceiverAddress,
                                        IF IsNil(q.Nonce) THEN <<>> ELSE Deref(q.Nonce),
                                        FormatInt(Unix(Deref(q.Timestamp)))>>,
                                      <<"|">>))]

\* LnurlpRequest.signablePayload
LnurlpRequestSignablePayload(q) ==
    IF IsNil(q.Timestamp) \/ IsNil(q.Nonce)
    THEN [err |-> TRUE, payload |-> Nil]
    ELSE [err |-> FALSE,
          payload |-> Ptr(StringsJoin(<<q.ReceiverAddress, Deref(q.Nonce),
                                        FormatInt(Unix(Deref(q.Timestamp)))>>,
                                      <<"|">>))]

\* UmaLnurlpResponse.signablePayload
UmaLnurlpResponseSignablePayload(r) ==
    StringsJoin(<<r.Compliance.ReceiverIdentifier, r.Compliance.Nonce,
                  FormatInt(r.Compliance.Timestamp)>>, <<"|">>)

\* CompliancePayeeData.signablePayload; c is the receiver pointer.
CompliancePayeeDataSignablePayload(c, payerIdentifier, payeeIdentifier) ==
    IF IsNil(c) THEN [err |-> TRUE, payload |-> Nil]
    ELSE [err |-> FALSE,
          payload |-> Ptr(StringsJoin(<<payerIdentifier, payeeIdentifier,
                                        Deref(c).SignatureNonce,
                                        FormatInt(Deref(c).SignatureTimestamp)>>,
                                      <<"|">>))]

\* PostTransactionCallback.signablePayload
PostTransactionCallbackSignablePayload(c) ==
    StringsJoin(<<c.Nonce, FormatInt(c.Timestamp)>>, <<"|">>)

\* ------------------------------------------------------------------
\* uma/protocol.go: PayRequest
\* ------------------------------------------------------------------

\* PayerData.Identifier: the "identifier" entry of the payer data, nil when
\* there is none.
PayerDataIdentifier(payerData) == payerData.identifier

\* PayerData.Compliance: the "compliance" entry decoded as a
\* CompliancePayerData; nil when there is none, an error when it is there
\* and does not decode.
PayerDataCompliance(payerData) ==
    IF IsNil(payerData.compliance) THEN [err |-> FALSE, compliance |-> Nil]
    ELSE IF ~Deref(payerData.compliance).wellTyped
    THEN [err |-> TRUE, compliance |-> Nil]
    ELSE [err |-> FALSE,
          compliance |->
              Ptr([SignatureNonce |-> Deref(payerData.compliance).SignatureNonce,
                   SignatureTimestamp |->
                       Deref(payerData.compliance).SignatureTimestamp])]

\* PayRequest.IsUmaRequest
PayRequestIsUmaRequest(p) ==
    IF IsNil(p.PayerData) THEN FALSE
    ELSE IF PayerDataCompliance(Deref(p.PayerData)).err THEN FALSE
    ELSE /\ ~IsNil(PayerDataCompliance(Deref(p.PayerData)).compliance)
         /\ ~IsNil(PayerDataIdentifier(Deref(p.PayerData)))

\* PayRequest.signablePayload
PayRequestSignablePayload(p) ==
    LET failed == [err |-> TRUE, payload |-> Nil]
    IN IF IsNil(p.PayerData) THEN failed
       ELSE LET senderAddress == PayerDataIdentifier(Deref(p.PayerData))
                complianceData == PayerDataCompliance(Deref(p.PayerData))
            IN IF IsNil(senderAddress) \/ Len(Deref(senderAddress)) = 0 THEN failed
               ELSE IF complianceData.err THEN failed
               ELSE IF IsNil(complianceData.compliance) THEN failed
               ELSE [err |-> FALSE,
                     payload |-> Ptr(StringsJoin(
                         <<Deref(senderAddress),
                           Deref(complianceData.compliance).SignatureNonce,
                           FormatInt(Deref(complianceData.compliance).SignatureTimestamp)>>,
                         <<"|">>))]

\* JSON text is kept as the sequence of the members of its top-level
\* object.  A string member holds the characters written between its
\* quotes; an object member holds the value its text stands for.
JString(raw) == [kind |-> "string", raw |-> raw, value |-> <<>>]
JObject(value) == [kind |-> "object", raw |-> <<>>, value |-> value]
JNumber(n) == [kind |-> "number", raw |-> FormatInt(n), value |-> <<>>]
JAbsent == [kind |-> "absent", raw |-> <<>>, value |-> <<>>]
JMember(key, value) == [key |-> key, value |-> value]

\* PayRequest.MarshalJSON: the members in the order they are written.  The
\* strings are written between quotes by Sprintf as they are.
PayRequestMarshalJSON(p) ==
    LET amount == IF IsNil(p.SendingAmountCurrencyCode)
                  THEN FormatInt(p.Amount)
                  ELSE FormatInt(p.Amount) \o <<".">>
                           \o Deref(p.SendingAmountCurrencyCode)
    IN [wellFormed |-> TRUE,
        members |->
            <<JMember("amount", JString(amount))>>
            \o (IF IsNil(p.ReceivingCurrencyCode) THEN <<>>
                ELSE <<JMember("convert", JString(Deref(p.ReceivingCurrencyCode)))>>)
            \o (IF IsNil(p.PayerData) THEN <<>>
                ELSE <<JMember("payerData", JObject(Deref(p.PayerData)))>>)
            \o (IF IsNil(p.RequestedPayeeData) THEN <<>>
                ELSE <<JMember("payeeData", JObject(Deref(p.RequestedPayeeData)))>>)
            \o (IF IsNil(p.Comment) THEN <<>>
                ELSE <<JMember("comment", JString(Deref(p.Comment)))>>)]

\* json.Unmarshal(data, &rawReq): a syntax error for text that is no JSON
\* object, which includes a string member with a bare double quote among
\* its characters; else the value of every key, the last member of a key
\* winning.
JsonUnmarshalMap(data) ==
    IF \/ ~data.wellFormed
       \/ \E i \in 1..Len(data.members) :
              /\ data.members[i].value.kind = "string"
              /\ \E j \in 1..Len(data.members[i].value.raw) :
                     data.members[i].value.raw[j] = "\""
    THEN [err |-> TRUE, rawReq |-> [k \in {} |-> JAbsent]]
    ELSE [err |-> FALSE,
          rawReq |->
              [k \in {data.members[i].key : i \in 1..Len(data.members)} |->
                  data.members[CHOOSE i \in 1..Len(data.members) :
                                   /\ data.members[i].key = k
                                   /\ \A j \in (i + 1)..Len(data.members) :
                                          data.members[j].key # k].value]]

\* rawReq[key]
MapIndex(rawReq, key) == IF key \in DOMAIN rawReq THEN rawReq[key] ELSE JAbsent

\* json.Unmarshal of the "payeeData" object into CounterPartyDataOptions.
UnmarshalCounterPartyDataOptions(value) ==
    IF value.wellTyped THEN [err |-> FALSE, options |-> value]
    ELSE [err |-> TRUE, options |-> value]

\* The hybrid amount has more '.'-separated parts than amount and currency.
TooManyAmountParts_OffByOne(amountParts) == Len(amountParts) > 3

TooManyAmountParts(amountParts) == Len(amountParts) > 2

\* PayRequest.UnmarshalJSON on the receiver p: the error and the receiver
\* as the call leaves it.
PayRequestUnmarshalJSON(p, data) ==
    LET decoded == JsonUnmarshalMap(data)
        convert == MapIndex(decoded.rawReq, "convert")
        amount == MapIndex(decoded.rawReq, "amount")
        payerDataJson == MapIndex(decoded.rawReq, "payerData")
        payeeDataJson == MapIndex(decoded.rawReq, "payeeData")
        comment == MapIndex(decoded.rawReq, "comment")
        p1 == IF convert.kind = "string"
              THEN [p EXCEPT !.ReceivingCurrencyCode = Ptr(convert.raw)] ELSE p
        amountParts == StringsSplit(amount.raw, ".")
        parsed == ParseInt(amountParts[1])
        p2 == [p1 EXCEPT !.Amount = parsed.val]
        p3 == IF Len(amountParts) = 2 /\ Len(amountParts[2]) > 0
              THEN [p2 EXCEPT !.SendingAmountCurrencyCode = Ptr(amountParts[2])]
              ELSE p2
        p4 == IF payerDataJson.kind = "object"
              THEN [p3 EXCEPT !.PayerData = Ptr(payerDataJson.value)] ELSE p3
        payeeData == UnmarshalCounterPartyDataOptions(payeeDataJson.value)
        p5 == IF payeeDataJson.kind = "object"
              THEN [p4 EXCEPT !.RequestedPayeeData = Ptr(payeeData.options)] ELSE p4
        p6 == IF comment.kind = "string"
              THEN [p5 EXCEPT !.Comment = Ptr(comment.raw)] ELSE p5
    IN IF decoded.err THEN [err |-> TRUE, p |-> p]
       ELSE IF amount.kind # "string" THEN [err |-> TRUE, p |-> p1]
       ELSE IF TooManyAmountParts(amountParts) THEN [err |-> TRUE, p |-> p1]
       ELSE IF parsed.err THEN [err |-> TRUE, p |-> p2]
       ELSE IF payeeDataJson.kind = "object" /\ payeeData.err
       THEN [err |-> TRUE, p |-> p4]
       ELSE [err |-> FALSE, p |-> p6]

\* ------------------------------------------------------------------
\* Inputs of the version operations
\* ------------------------------------------------------------------

\* Major versions a counterparty may advertise.
MajorDomain == {-1, 0, 1, 2, 7}
MajorLists == SeqsUpTo(MajorDomain, MaxMajors)

VersionAlphabet == {"0", "1", ".", "x", "-", "+", " "}
VersionStrings == SeqsUpTo(VersionAlphabet, MaxVerLen)

PairAlphabet == {"0", "1", "."}
PairStrings == SeqsUpTo(PairAlphabet, MaxPairLen)

VersionNumbers == 0..MaxVersionNumber

\* ------------------------------------------------------------------
\* Inputs of the message operations
\* ------------------------------------------------------------------

AliceAtVasp == <<"a", "l", "i", "c", "e", "@", "v", "a", "s", "p", ".", "c", "o", "m">>
BobAtLocalhost == <<"b", "o", "b", "@", "l", "o", "c", "a", "l", "h", "o", "s", "t">>
Abc == <<"a", "b", "c">>
Usd == <<"U", "S", "D">>
Eur == <<"E", "U", "R">>

FieldAlphabet == {"a", "@", "|"}
FieldStrings == SeqsUpTo(FieldAlphabet, MaxFieldLen)

ReceiverAddresses == FieldStrings \cup {AliceAtVasp, BobAtLocalhost}
Nonces == {Abc, <<>>, <<"|">>}
Times == {[sec |-> 1700000000, nsec |-> 0], [sec |-> 0, nsec |-> 999999999],
          [sec |-> -1, nsec |-> 0]}
UnixTimes == {Unix(t) : t \in Times}

OptionOf(S) == {Nil} \cup {Ptr(x) : x \in S}

LnurlpRequests ==
    [ReceiverAddress : ReceiverAddresses,
     Nonce : OptionOf(Nonces),
     Signature : OptionOf({<<"s", "i", "g">>}),
     IsSubjectToTravelRule : OptionOf(BOOLEAN),
     VaspDomain : OptionOf({<<"v", "a", "s", "p", "1">>}),
     Timestamp : OptionOf(Times),
     UmaVersion : OptionOf({UmaProtocolVersion})]

LnurlComplianceResponses ==
    [ReceiverIdentifier : ReceiverAddresses, Nonce : Nonces, Timestamp : UnixTimes]

CompliancePayeeDatas == [SignatureNonce : Nonces, SignatureTimestamp : UnixTimes]

PostTransactionCallbacks == [Nonce : Nonces \cup FieldStrings, Timestamp : UnixTimes]

\* The "compliance" entry of a payer data: one that does not decode, or
\* one with its nonce and timestamp.
PayerCompliances ==
    {[wellTyped |-> FALSE, SignatureNonce |-> <<>>, SignatureTimestamp |-> 0]}
    \cup [wellTyped : {TRUE}, SignatureNonce : Nonces,
          SignatureTimestamp : {0, 1700000000}]

PayerDatas ==
    [identifier : OptionOf({<<>>, AliceAtVasp, <<"a", "|">>}),
     compliance : OptionOf(PayerCompliances)]

\* The payee data options a sender asks for: well typed or not.
CounterPartyDataOptionsValues == [wellTyped : BOOLEAN]

AmountValues == {-5, 0, 7, 1000}
CurrencyCodes == {<<>>, Usd, <<"U", ".", "S">>, <<"U", "\"">>}
Comments == {<<"h", "i">>}

ZeroPayRequest ==
    [SendingAmountCurrencyCode |-> Nil, ReceivingCurrencyCode |-> Nil, Amount |-> 0,
     PayerData |-> Nil, RequestedPayeeData |-> Nil, Comment |-> Nil]

FullPayerData ==
    [identifier |-> Ptr(AliceAtVasp),
     compliance |-> Ptr([wellTyped |-> TRUE, SignatureNonce |-> Abc,
                         SignatureTimestamp |-> 1700000000])]

\* Pay requests that differ in their payer data only.
PayerDataRequests ==
    {[ZeroPayRequest EXCEPT !.PayerData = pd] : pd \in OptionOf(PayerDatas)}

\* Pay requests to encode.
PayRequests ==
    [SendingAmountCurrencyCode : OptionOf(CurrencyCodes),
     ReceivingCurrencyCode : OptionOf({Eur}),
     Amount : AmountValues,
     PayerData : OptionOf({FullPayerData}),
     RequestedPayeeData : OptionOf({[wellTyped |-> TRUE]}),
     Comment : OptionOf(Comments)]

\* A pay request that has been filled in before it is decoded into.
UsedPayRequest ==
    [SendingAmountCurrencyCode |-> Ptr(Usd), ReceivingCurrencyCode |-> Ptr(Usd),
     Amount |-> 7, PayerData |-> Ptr(FullPayerData),
     RequestedPayeeData |-> Ptr([wellTyped |-> TRUE]), Comment |-> Ptr(<<"h", "i">>)]

Receivers == {ZeroPayRequest, UsedPayRequest}

AmountAlphabet == {"1", ".", "U", "-"}
AmountStrings ==
    SeqsUpTo(AmountAlphabet, MaxAmountLen)
    \cup {FormatInt(1000), FormatInt(1000) \o <<".">>,
          FormatInt(1000) \o <<".">> \o Usd,
          FormatInt(1000) \o <<".">> \o Usd \o <<".">> \o Eur}

\* A member that may be left out of a document.
MaybeMember(key, values) == {<<>>} \cup {<<JMember(key, v)>> : v \in values}

\* JSON documents handed to PayRequest.UnmarshalJSON.
Documents ==
    {[wellFormed |-> FALSE, members |-> <<>>]}
    \cup {[wellFormed |-> TRUE, members |-> c \o a \o pr \o pe \o cm] :
            c \in MaybeMember("convert", {JString(Eur), JNumber(5)}),
            a \in MaybeMember("amount",
                              {JNumber(1000)} \cup {JString(x) : x \in AmountStrings}),
            pr \in MaybeMember("payerData", {JObject(FullPayerData)}),
            pe \in MaybeMember("payeeData",
                               {JObject(v) : v \in CounterPartyDataOptionsValues}),
            cm \in MaybeMember("comment", {JString(<<"h", "i">>)})}

\* Strings of signed fields that may hold the separator.
SeparatorStrings == SeqsUpTo({"a", "|"}, MaxFieldLen)

\* Capability requests that differ in their signed fields only.
SignedLnurlpRequests ==
    [ReceiverAddress : SeparatorStrings,
     Nonce : {Ptr(n) : n \in Nonces},
     Signature : {Nil},
     IsSubjectToTravelRule : {Nil},
     VaspDomain : {Nil},
     Timestamp : {Ptr(t) : t \in {[sec |-> 0, nsec |-> 0], [sec |-> 1, nsec |-> 0]}},
     UmaVersion : {Nil}]

\* The inputs of CompliancePayeeData.signablePayload.
SignedPayeeInputs ==
    [c : {Ptr(c) : c \in [SignatureNonce : Nonces, SignatureTimestamp : {0}]},
     payerIdentifier : SeparatorStrings,
     payeeIdentifier : {<<>>, <<"|">>}]

\* Callbacks whose nonce may hold digits and the separator.
SignedCallbacks ==
    [Nonce : SeqsUpTo({"1", "|"}, MaxFieldLen), Timestamp : {-1, 0, 1, 11}]

\* ------------------------------------------------------------------
\* Actions: one per exported operation
\* ------------------------------------------------------------------

Init ==
    /\ call = "idle"
    /\ args = <<>>
    /\ ret = <<>>

CallSelectHighestSupportedVersion ==
    /\ call = "idle"
    /\ \E majors \in MajorLists :
        /\ call' = "SelectHighestSupportedVersion"
        /\ args' = [majors |-> majors]
        /\ ret' = [version |-> SelectHighestSupportedVersion(majors)]

CallSelectLowerVersion ==
    /\ call = "idle"
    /\ \E a \in PairStrings, b \in PairStrings :
        /\ call' = "SelectLowerVersion"
        /\ args' = [version1String |-> a, version2String |-> b]
        /\ ret' = [forward |-> SelectLowerVersion(a, b),
                   backward |-> SelectLowerVersion(b, a)]

CallParseVersion ==
    /\ call = "idle"
    /\ \E s \in VersionStrings :
        /\ call' = "ParseVersion"
        /\ args' = [version |-> s]
        /\ ret' = [parsed |-> ParseVersion(s),
                   supported |-> IsVersionSupported(s)]

\* ParsedVersion{major, minor}.String() followed by ParseVersion.
CallVersionRoundTrip ==
    /\ call = "idle"
    /\ \E major \in VersionNumbers, minor \in VersionNumbers :
        /\ call' = "VersionRoundTrip"
        /\ args' = [Major |-> major, Minor |-> minor]
        /\ ret' = [string |-> VersionString([Major |-> major, Minor |-> minor]),
                   parsed |-> ParseVersion(
                                  VersionString([Major |-> major, Minor |-> minor]))]

CallLnurlpRequestAsUmaRequest ==
    /\ call = "idle"
    /\ \E q \in LnurlpRequests :
        /\ call' = "LnurlpRequest.AsUmaRequest"
        /\ args' = [q |-> q]
        /\ ret' = [isUma |-> LnurlpRequestIsUmaRequest(q),
                   uma |-> LnurlpRequestAsUmaRequest(q)]

CallLnurlpRequestEncodeToUrl ==
    /\ call = "idle"
    /\ \E q \in LnurlpRequests :
        /\ call' = "LnurlpRequest.EncodeToUrl"
        /\ args' = [q |-> q]
        /\ ret' = LnurlpRequestEncodeToUrl(q)

CallLnurlpRequestSignablePayload ==
    /\ call = "idle"
    /\ \E q \in LnurlpRequests :
        /\ call' = "LnurlpRequest.signablePayload"
        /\ args' = [q |-> q]
        /\ ret' = LnurlpRequestSignablePayload(q)

CallUmaLnurlpResponseSignablePayload ==
    /\ call = "idle"
    /\ \E c \in LnurlComplianceResponses :
        /\ call' = "UmaLnurlpResponse.signablePayload"
        /\ args' = [r |-> [Compliance |-> c]]
        /\ ret' = [err |-> FALSE,
                   payload |-> Ptr(UmaLnurlpResponseSignablePayload([Compliance |-> c]))]

CallPayRequestIsUmaRequest ==
    /\ call = "idle"
    /\ \E p \in PayerDataRequests :
        /\ call' = "PayRequest.IsUmaRequest"
        /\ args' = [p |-> p]
        /\ ret' = [isUma |-> PayRequestIsUmaRequest(p)]

CallPayRequestSignablePayload ==
    /\ call = "idle"
    /\ \E p \in PayerDataRequests :
        /\ call' = "PayRequest.signablePayload"
        /\ args' = [p |-> p]
        /\ ret' = PayRequestSignablePayload(p)

CallCompliancePayeeDataSignablePayload ==
    /\ call = "idle"
    /\ \E c \in OptionOf(CompliancePayeeDatas),
          payer \in {<<>>, AliceAtVasp}, payee \in {<<>>, BobAtLocalhost, <<"|">>} :
        /\ call' = "CompliancePayeeData.signablePayload"
        /\ args' = [c |-> c, payerIdentifier |-> payer, payeeIdentifier |-> payee]
        /\ ret' = CompliancePayeeDataSignablePayload(c, payer, payee)

CallPostTransactionCallbackSignablePayload ==
    /\ call = "idle"
    /\ \E c \in PostTransactionCallbacks :
        /\ call' = "PostTransactionCallback.signablePayload"
        /\ args' = [c |-> c]
        /\ ret' = [err |-> FALSE,
                   payload |-> Ptr(PostTransactionCallbackSignablePayload(c))]

\* MarshalJSON of p, then UnmarshalJSON of the output into a new PayRequest.
CallPayRequestRoundTrip ==
    /\ call = "idle"
    /\ \E p \in PayRequests :
        /\ call' = "PayRequest.RoundTrip"
        /\ args' = [p |-> p]
        /\ ret' = [data |-> PayRequestMarshalJSON(p),
                   decoded |-> PayRequestUnmarshalJSON(ZeroPayRequest,
                                                       PayRequestMarshalJSON(p))]

CallPayRequestUnmarshalJSON ==
    /\ call = "idle"
    /\ \E p \in Receivers, data \in Documents :
        /\ call' = "PayRequest.UnmarshalJSON"
        /\ args' = [p |-> p, data |-> data]
        /\ ret' = PayRequestUnmarshalJSON(p, data)

\* Two capability requests are canonicalized, as a verifier does for the
\* request it received and one it has seen before.
CallLnurlpRequestSignablePayloadTwice ==
    /\ call = "idle"
    /\ \E q1 \in SignedLnurlpRequests, q2 \in SignedLnurlpRequests :
        /\ call' = "LnurlpRequest.signablePayload x2"
        /\ args' = [first |-> q1, second |-> q2]
        /\ ret' = [first |-> LnurlpRequestSignablePayload(q1),
                   second |-> LnurlpRequestSignablePayload(q2)]

CallCompliancePayeeDataSignablePayloadTwice ==
    /\ call = "idle"
    /\ \E i1 \in SignedPayeeInputs, i2 \in SignedPayeeInputs :
        /\ call' = "CompliancePayeeData.signablePayload x2"
        /\ args' = [first |-> i1, second |-> i2]
        /\ ret' = [first |-> CompliancePayeeDataSignablePayload(
                                 i1.c, i1.payerIdentifier, i1.payeeIdentifier),
                   second |-> CompliancePayeeDataSignablePayload(
                                  i2.c, i2.payerIdentifier, i2.payeeIdentifier)]

CallPostTransactionCallbackSignablePayloadTwice ==
    /\ call = "idle"
    /\ \E c1 \in SignedCallbacks, c2 \in SignedCallbacks :
        /\ call' = "PostTransactionCallback.signablePayload x2"
        /\ args' = [first |-> c1, second |-> c2]
        /\ ret' = [first |-> [err |-> FALSE,
                              payload |-> Ptr(PostTransactionCallbackSignablePayload(c1))],
                   second |-> [err |-> FALSE,
                               payload |-> Ptr(PostTransactionCallbackSignablePayload(c2))]]

\* The caller takes the result; the package keeps no state between calls.
Return ==
    /\ call # "idle"
    /\ call' = "idle"
    /\ args' = <<>>
    /\ ret' = <<>>

Next ==
    \/ Return
    \/ CallSelectHighestSupportedVersion
    \/ CallSelectLowerVersion
    \/ CallParseVersion
    \/ CallVersionRoundTrip
    \/ CallLnurlpRequestAsUmaRequest
    \/ CallLnurlpRequestEncodeToUrl
    \/ CallLnurlpRequestSignablePayload
    \/ CallUmaLnurlpResponseSignablePayload
    \/ CallPayRequestIsUmaRequest
    \/ CallPayRequestSignablePayload
    \/ CallCompliancePayeeDataSignablePayload
    \/ CallPostTransactionCallbackSignablePayload
    \/ CallPayRequestRoundTrip
    \/ CallPayRequestUnmarshalJSON
    \/ CallLnurlpRequestSignablePayloadTwice
    \/ CallCompliancePayeeDataSignablePayloadTwice
    \/ CallPostTransactionCallbackSignablePayloadTwice

Spec == Init /\ [][Next]_vars

\* ------------------------------------------------------------------
\* Properties
\* ------------------------------------------------------------------

Elements(seq) == {seq[i] : i \in 1..Len(seq)}
Maximum(S) == CHOOSE x \in S : \A y \in S : y <= x
CountOf(s, c) == Cardinality({i \in 1..Len(s) : s[i] = c})

\* C1: SelectHighestSupportedVersion returns none exactly when no advertised
\* major is supported; otherwise it returns the string of the highest
\* supported version for the greatest advertised major that is supported.
\* [1] gives "1.0" and [7] gives none.
C1_SelectHighestMutual ==
    call = "SelectHighestSupportedVersion" =>
        LET mutual == Elements(args.majors) \cap GetSupportedMajorVersions
        IN /\ IsNil(ret.version) <=> mutual = {}
           /\ mutual # {} =>
                ret.version = Ptr(VersionString(Deref(
                    GetHighestSupportedVersionForMajorVersion(Maximum(mutual)))))
           /\ args.majors = <<1>> => ret.version = Ptr(<<"1", ".", "0">>)
           /\ args.majors = <<7>> => ret.version = Nil

\* C1 witness: the greatest supported major comes first in the list and a
\* lower supported one after it.
C1_Witness ==
    /\ call = "SelectHighestSupportedVersion"
    /\ args.majors = <<1, 7, 0>>
    /\ ret.version = Ptr(<<"1", ".", "0">>)

UmaRequestFields == {"Nonce", "Signature", "VaspDomain", "Timestamp", "UmaVersion"}

\* C2: a capability request is a UMA request iff nonce, signature, sender
\* domain, timestamp and version are all present; then AsUmaRequest returns
\* a strict value with the same fields, and otherwise it returns nil.
C2_UmaRequestUpgrade ==
    call = "LnurlpRequest.AsUmaRequest" =>
        LET q == args.q
            allFive == \A f \in UmaRequestFields : q[f] # Nil
        IN /\ ret.isUma <=> allFive
           /\ allFive =>
                /\ ret.uma # Nil
                /\ Deref(ret.uma).ReceiverAddress = q.ReceiverAddress
                /\ \A f \in UmaRequestFields : Ptr(Deref(ret.uma)[f]) = q[f]
           /\ ~allFive => ret.uma = Nil

\* C2 witness: all five fields are there, the travel rule flag is not, and
\* the request is upgraded.
C2_Witness ==
    /\ call = "LnurlpRequest.AsUmaRequest"
    /\ \A f \in UmaRequestFields : args.q[f] # Nil
    /\ args.q.IsSubjectToTravelRule = Nil
    /\ ret.isUma
    /\ ret.uma # Nil

SixQueryKeys ==
    {"signature", "vaspDomain", "nonce", "isSubjectToTravelRule", "timestamp",
     "umaVersion"}

\* C3: for every UMA capability request whose receiver address has exactly
\* one '@', also when the travel rule flag is absent, EncodeToUrl succeeds
\* and the URL carries exactly the six query parameters, the travel rule
\* flag being "true" or "false".
C3_EncodeCompliantRequest ==
    (/\ call = "LnurlpRequest.EncodeToUrl"
     /\ \A f \in UmaRequestFields : args.q[f] # Nil
     /\ CountOf(args.q.ReceiverAddress, "@") = 1)
    => /\ ret.outcome = "ok"
       /\ Len(Deref(ret.url).RawQuery) = 6
       /\ {kv.key : kv \in Elements(Deref(ret.url).RawQuery)} = SixQueryKeys
       /\ \A kv \in Elements(Deref(ret.url).RawQuery) :
              kv.key = "isSubjectToTravelRule"
                  => kv.value \in {FormatBool(TRUE), FormatBool(FALSE)}

AmountMember(data) ==
    SelectSeq(data.members, LAMBDA m : m.key = "amount")

\* C4: MarshalJSON writes the amount as "a", or "a.c" when the sending
\* currency code c is present, and UnmarshalJSON of the output gives
\* Amount = a and SendingAmountCurrencyCode = c.
C4_HybridAmountRoundTrip ==
    call = "PayRequest.RoundTrip" =>
        LET a == args.p.Amount
            c == args.p.SendingAmountCurrencyCode
        IN /\ AmountMember(ret.data)[1].value.raw =
                  (IF IsNil(c) THEN FormatInt(a)
                   ELSE FormatInt(a) \o <<".">> \o Deref(c))
           /\ ~ret.decoded.err
           /\ ret.decoded.p.Amount = a
           /\ ret.decoded.p.SendingAmountCurrencyCode = c

\* An optional sign and then one or more decimal digits.
IsBase10Integer(s) ==
    LET body == IF Len(s) > 0 /\ s[1] \in {"+", "-"} THEN Tail(s) ELSE s
    IN Len(body) > 0 /\ \A i \in 1..Len(body) : body[i] \in DigitSet

\* The part of s before its first '.', all of s when it has none.
LeftSegment(s) ==
    IF CountOf(s, ".") = 0 THEN s
    ELSE SubSeq(s, 1, (CHOOSE i \in 1..Len(s) :
                           s[i] = "." /\ \A j \in 1..(i - 1) : s[j] # ".") - 1)

Bar == <<"|">>

\* C6: the signable payload of each message is its fields joined by '|':
\* receiverAddress|nonce|seconds for a capability request,
\* receiverIdentifier|nonce|timestamp for a capability response,
\* payerIdentifier|nonce|timestamp of the payer data for an invoice request,
\* payerIdentifier|payeeIdentifier|nonce|timestamp for payee compliance
\* data and nonce|timestamp for the post-transaction callback.
C6_SignablePayloadLayout ==
    /\ (call = "LnurlpRequest.signablePayload" /\ ~ret.err) =>
          /\ Deref(ret.payload) =
                 args.q.ReceiverAddress \o Bar \o Deref(args.q.Nonce) \o Bar
                     \o FormatInt(Deref(args.q.Timestamp).sec)
          /\ (/\ args.q.ReceiverAddress = AliceAtVasp
              /\ args.q.Nonce = Ptr(Abc)
              /\ Deref(args.q.Timestamp).sec = 1700000000)
             => Deref(ret.payload) =
                    <<"a", "l", "i", "c", "e", "@", "v", "a", "s", "p", ".", "c",
                      "o", "m", "|", "a", "b", "c", "|", "1", "7", "0", "0", "0",
                      "0", "0", "0", "0", "0">>
    /\ call = "UmaLnurlpResponse.signablePayload" =>
          Deref(ret.payload) =
              args.r.Compliance.ReceiverIdentifier \o Bar \o args.r.Compliance.Nonce
                  \o Bar \o FormatInt(args.r.Compliance.Timestamp)
    /\ (call = "PayRequest.signablePayload" /\ ~ret.err) =>
          Deref(ret.payload) =
              Deref(Deref(args.p.PayerData).identifier) \o Bar
                  \o Deref(Deref(args.p.PayerData).compliance).SignatureNonce \o Bar
                  \o FormatInt(Deref(Deref(args.p.PayerData).compliance).SignatureTimestamp)
    /\ (call = "CompliancePayeeData.signablePayload" /\ ~ret.err) =>
          Deref(ret.payload) =
              args.payerIdentifier \o Bar \o args.payeeIdentifier \o Bar
                  \o Deref(args.c).SignatureNonce \o Bar
                  \o FormatInt(Deref(args.c).SignatureTimestamp)
    /\ call = "PostTransactionCallback.signablePayload" =>
          Deref(ret.payload) = args.c.Nonce \o Bar \o FormatInt(args.c.Timestamp)

\* C6 witness: the capability request alice@vasp.com, abc, 1700000000 has
\* been canonicalized.
C6_Witness ==
    /\ call = "LnurlpRequest.signablePayload"
    /\ args.q.ReceiverAddress = AliceAtVasp
    /\ args.q.Nonce = Ptr(Abc)
    /\ args.q.Timestamp = Ptr([sec |-> 1700000000, nsec |-> 0])
    /\ ~ret.err

\* C7: signablePayload with an absent nonce, timestamp or identifier (a nil
\* pointer, a missing payer data entry, a nil receiver) returns an error and
\* no payload; a payload is returned only without an error.
C7_MissingSigningField ==
    /\ (/\ call = "LnurlpRequest.signablePayload"
        /\ (args.q.Nonce = Nil \/ args.q.Timestamp = Nil))
       => (ret.err /\ ret.payload = Nil)
    /\ (/\ call = "PayRequest.signablePayload"
        /\ \/ args.p.PayerData = Nil
           \/ Deref(args.p.PayerData).identifier = Nil
           \/ Deref(args.p.PayerData).compliance = Nil)
       => (ret.err /\ ret.payload = Nil)
    /\ (call = "CompliancePayeeData.signablePayload" /\ args.c = Nil)
       => (ret.err /\ ret.payload = Nil)
    /\ call \in {"LnurlpRequest.signablePayload", "PayRequest.signablePayload",
                 "CompliancePayeeData.signablePayload"}
       => (ret.err <=> ret.payload = Nil)

\* C7 witness: a capability request with a timestamp and no nonce has been
\* refused.
C7_Witness ==
    /\ call = "LnurlpRequest.signablePayload"
    /\ args.q.Nonce = Nil
    /\ args.q.Timestamp # Nil
    /\ ret.err
    /\ ret.payload = Nil

\* C8: when PayRequest.UnmarshalJSON returns an error, every field of the
\* receiving PayRequest has the value it had before the call.
C8_NoPartialMutation ==
    (call = "PayRequest.UnmarshalJSON" /\ ret.err) => ret.p = args.p

VersionLess(v, w) == v.Major < w.Major \/ (v.Major = w.Major /\ v.Minor < w.Minor)

\* C9: for two version strings that parse, SelectLowerVersion(a, b) equals
\* SelectLowerVersion(b, a) and is the one with the lexicographically smaller
\* (major, minor); when either does not parse the call returns an error and
\* no version.
C9_SelectLowerSymmetric ==
    call = "SelectLowerVersion" =>
        LET a == ParseVersion(args.version1String)
            b == ParseVersion(args.version2String)
        IN IF a.err \/ b.err
           THEN /\ ret.forward.err /\ ret.forward.version = Nil
                /\ ret.backward.err /\ ret.backward.version = Nil
           ELSE /\ ~ret.forward.err
                /\ ret.forward = ret.backward
                /\ VersionLess(Deref(a.v), Deref(b.v))
                       => ret.forward.version = Ptr(args.version1String)
                /\ VersionLess(Deref(b.v), Deref(a.v))
                       => ret.forward.version = Ptr(args.version2String)

\* C10: for all non-negative major and minor, ParseVersion of the String of
\* ParsedVersion{major, minor} succeeds and returns {major, minor}.
C10_VersionRoundTrip ==
    call = "VersionRoundTrip" =>
        /\ ~ret.parsed.err
        /\ ret.parsed.v = Ptr([Major |-> args.Major, Minor |-> args.Minor])

\* C10 witness: a version of two two-digit numbers has gone through String
\* and ParseVersion.
C10_Witness ==
    /\ call = "VersionRoundTrip"
    /\ args.Major = 12
    /\ args.Minor = 10
    /\ ret.string = <<"1", "2", ".", "1", "0">>
    /\ ~ret.parsed.err

\* C11: ParseVersion fails on every string that is not the "major.minor"
\* output of String for two non-negative integers (trailing characters, a
\* sign, leading zeros or blanks, a missing component), so that a string
\* that parses is the String of the version it parses to.
C11_ParseOnlyCanonical ==
    (call = "ParseVersion" /\ ~ret.parsed.err) =>
        /\ Deref(ret.parsed.v).Major >= 0
        /\ Deref(ret.parsed.v).Minor >= 0
        /\ VersionString(Deref(ret.parsed.v)) = args.version

\* Position of the only '@' of an address that has exactly one.
AtPosition(address) == CHOOSE i \in 1..Len(address) : address[i] = "@"

\* C12: EncodeToUrl returns an error when the receiver address does not
\* have exactly one '@'; otherwise it returns a URL whose host is the part
\* after the '@', whose path is /.well-known/lnurlp/ and the part before
\* it, whose scheme is http for a local host and https otherwise, and
\* whose query is empty when the request is not a UMA request.
C12_EncodeToUrl ==
    call = "LnurlpRequest.EncodeToUrl" =>
        LET address == args.q.ReceiverAddress
            at == AtPosition(address)
        IN IF CountOf(address, "@") # 1
           THEN ret.outcome = "error" /\ ret.url = Nil
           ELSE /\ ret.outcome = "ok"
                /\ Deref(ret.url).Host = SubSeq(address, at + 1, Len(address))
                /\ Deref(ret.url).Path =
                       WellKnownLnurlp \o SubSeq(address, 1, at - 1)
                /\ Deref(ret.url).Scheme =
                       (IF Deref(ret.url).Host \in LocalHosts
                        THEN <<"h", "t", "t", "p">>
                        ELSE <<"h", "t", "t", "p", "s">>)
                /\ (\E f \in UmaRequestFields : args.q[f] = Nil)
                       => Deref(ret.url).RawQuery = <<>>

\* C13: a pay request that IsUmaRequest reports compliant has a signable
\* payload, also when its payer identifier is the empty string; likewise a
\* capability request that IsUmaRequest reports compliant.
C13_CompliantIsSignable ==
    /\ (call = "PayRequest.signablePayload" /\ PayRequestIsUmaRequest(args.p))
       => (~ret.err /\ ret.payload # Nil)
    /\ (call = "LnurlpRequest.signablePayload" /\ LnurlpRequestIsUmaRequest(args.q))
       => (~ret.err /\ ret.payload # Nil)

\* The signed field tuple of a capability request.
SignedTuple(q) == <<q.ReceiverAddress, Deref(q.Nonce), Unix(Deref(q.Timestamp))>>

PairCalls ==
    {"LnurlpRequest.signablePayload x2", "CompliancePayeeData.signablePayload x2",
     "PostTransactionCallback.signablePayload x2"}

\* The two messages of a pair call differ in a signed field.
TuplesDiffer ==
    IF call = "LnurlpRequest.signablePayload x2"
    THEN SignedTuple(args.first) # SignedTuple(args.second)
    ELSE args.first # args.second

\* C14: two messages of one type whose signed field tuples differ never
\* have the same signable payload, also when a string field holds the '|'
\* separator.
C14_PayloadInjective ==
    (call \in PairCalls /\ TuplesDiffer) => ret.first.payload # ret.second.payload

====
